---- MODULE Spec2Model ----
(***************************************************************************)
(* Model of the bank phishing detector: the risk fusion engine             *)
(* (models/risk_scorer.py), the semantic stage (models/gemini_analyzer.py),*)
(* the deterministic score (models/deterministic_checker.py) and the bulk  *)
(* endpoint of app.py that runs the item pipeline over a batch.            *)
(*                                                                         *)
(* Specifications: Spec (a bulk request), FairSpec (the same when every    *)
(* pipeline terminates), RaceSpec (its pipelines as threads), LiveSpec (a  *)
(* provider that may stay silent), StageSpec (the stages of each item),    *)
(* FusionSpec (one fusion), WeightSpec (the fusion under every configured  *)
(* weight), PipelineSpec (one request through the item pipeline),          *)
(* SemanticSpec (the semantic stage), DetSpec (the deterministic score),   *)
(* ExtractorSpec (the sub-scanners of the extractor).                      *)
(*                                                                         *)
(* Numbers.  Every score (deterministic score, phishing likelihood, risk   *)
(* score) is an integer number of hundredths of a point: 70.0 is 7000.     *)
(* Confidences and the sender reputation are hundredths too: 0.5 is 50.    *)
(* Weights are tenths: 0.6 is 6.  The inputs are drawn from values with    *)
(* one decimal, so every product below is exact; the binary rounding       *)
(* error of Python floats is not modelled.                                 *)
(***************************************************************************)
EXTENDS Integers, Sequences, FiniteSets, TLC

VARIABLES
    service,      \* app.py:26-30 globals and GeminiAnalyzer.initialized
    emails,       \* BulkAnalysisRequest.emails of the request being served
    phase,        \* position of analyze_emails_bulk
    nextTask,     \* index of the next task of `tasks` the event loop starts
    pc,           \* per item: position of analyze_single_email
    waiters,      \* asyncio.Semaphore: FIFO queue of tasks blocked in acquire
    permits,      \* asyncio.Semaphore: its counter
    env,          \* per item: what the item's own pipeline worked on
    ret,          \* per item: the value its task returned
    response,     \* what the endpoint sent to the caller
    outtextlist,  \* the buffer of the HTML2Text object shared by all pipelines
    clean_text,   \* per item: the text HTML2Text.handle returned to it
    fin,          \* inputs of the component that is run on its own
    assessment    \* what that component produced from them

bulkVars == <<service, emails, phase, nextTask, pc, waiters, permits, env, ret, response>>
raceVars == <<outtextlist, clean_text>>
fusionVars == <<fin, assessment>>
vars == <<service, emails, phase, nextTask, pc, waiters, permits, env, ret,
          response, outtextlist, clean_text, fin, assessment>>

-----------------------------------------------------------------------------
(* Bounds of the model. *)

MaxBatch == 6        \* largest accepted batch that is run item by item
MaxRaceBatch == 2    \* batch size of the specification with thread-level steps
MaxLiveBatch == 3    \* batch size of the specification with a silent provider
DetStep == 50        \* grid of deterministic scores, in tenths of a point
LikStep == 25        \* grid of phishing likelihoods, in tenths of a point

(* Program constants. *)

SemaphoreLimit == 5          \* asyncio.Semaphore(5)
MinItems == 1                \* min_items=1
MaxItems == 50               \* max_items=50
deterministic_weight == 6    \* 0.6
gemini_weight == 4           \* 0.4
high_risk_threshold == 7000  \* 70.0
medium_risk_threshold == 4000 \* 40.0
critical_threshold == 9000   \* 90.0

-----------------------------------------------------------------------------
(* Arithmetic helpers. *)

Range(q) == {q[k] : k \in DOMAIN q}

Min(a, b) == IF a <= b THEN a ELSE b
Max(a, b) == IF a >= b THEN a ELSE b

\* max(0.0, min(100.0, x))
Clamp(x) == Max(0, Min(10000, x))

\* round(x, 1): to the nearest tenth of a point; a tie goes to the even tenth
Round1(x) ==
    LET q == x \div 10
        r == x % 10
    IN  IF r < 5 THEN q * 10
        ELSE IF r > 5 THEN (q + 1) * 10
        ELSE IF q % 2 = 0 THEN q * 10 ELSE (q + 1) * 10

-----------------------------------------------------------------------------
(* schemas/response_schemas.py *)

RiskLevel == {"low", "medium", "high", "critical"}

EmailMetadata(sender) == [sender |-> sender]
NoSender == 0      \* EmailMetadata(): sender is None

NoReputation == 0 - 1    \* sender_reputation is None

DeterministicChecks(spf, dkim, dmarc, rep, score) ==
    [spf_pass |-> spf, dkim_pass |-> dkim, dmarc_pass |-> dmarc,
     sender_reputation |-> rep, score |-> score]

\* reasoning is the analyzer's text; reasoning_note is what app.py appends to
\* it, " (Score adjusted from X to Y based on context)", kept as <<X, Y>> and
\* <<>> while nothing is appended
GeminiAnalysis(likelihood, reasoning, confidence) ==
    [phishing_likelihood |-> likelihood, reasoning |-> reasoning,
     reasoning_note |-> <<>>, model_confidence |-> confidence]

PhishingAnalysisResponse(score, level, flag, metadata, checks, gemini, indicators) ==
    [risk_score |-> score, risk_level |-> level, is_phishing |-> flag,
     email_metadata |-> metadata, deterministic_checks |-> checks,
     gemini_analysis |-> gemini, suspicious_indicators |-> indicators]

-----------------------------------------------------------------------------
(* models/risk_scorer.py *)

\* _classify_risk with the medium band flagged as phishing
classify_risk_medium_flagged(score) ==
    IF score >= critical_threshold THEN <<"critical", TRUE>>
    ELSE IF score >= high_risk_threshold THEN <<"high", TRUE>>
    ELSE IF score >= medium_risk_threshold THEN <<"medium", TRUE>>
    ELSE <<"low", FALSE>>

\* RiskScorer._classify_risk: (risk_level, is_phishing)
classify_risk(score) ==
    IF score >= critical_threshold THEN <<"critical", TRUE>>
    ELSE IF score >= high_risk_threshold THEN <<"high", TRUE>>
    ELSE IF score >= medium_risk_threshold THEN <<"medium", FALSE>>
    ELSE <<"low", FALSE>>

\* the weights calculate_final_score ends up using, in tenths: the configured
\* ones, or min(0.8, Wd + 0.2) and its complement when the confidence is low
effective_weights(wd, wg, confidence) ==
    IF confidence < 50
    THEN LET adjusted_weight == Min(8, wd + 2)
         IN  <<adjusted_weight, 10 - adjusted_weight>>
    ELSE <<wd, wg>>

\* final_score before the clamp, under configured weights wd and wg
blended_score(d, g, wd, wg, confidence) ==
    LET w == effective_weights(wd, wg, confidence)
    IN  (d * w[1] + g * w[2]) \div 10

\* the blend without the confidence adjustment
weighted_score_no_reweight(checks, gemini) ==
    Clamp((checks.score * deterministic_weight
           + gemini.phishing_likelihood * gemini_weight) \div 10)

\* RiskScorer.calculate_final_score, the try block:
\* (final_score, risk_level, is_phishing)
weighted_score(checks, gemini) ==
    Clamp(blended_score(checks.score, gemini.phishing_likelihood,
                deterministic_weight, gemini_weight, gemini.model_confidence))

\* calculate_final_score whose except block answers a neutral score
calculate_final_score_neutral_fallback(checks, gemini, throws) ==
    IF throws
    THEN <<5000, "medium", FALSE>>
    ELSE LET final_score == weighted_score(checks, gemini)
             c == classify_risk(final_score)
         IN  <<Round1(final_score), c[1], c[2]>>

calculate_final_score(checks, gemini, throws) ==
    IF throws
    THEN \* except: fall back to the deterministic score only
         LET c == classify_risk(checks.score)
         IN  <<checks.score, c[1], c[2]>>
    ELSE LET final_score == weighted_score(checks, gemini)
             c == classify_risk(final_score)
         IN  <<Round1(final_score), c[1], c[2]>>

\* RiskScorer.build_response
build_response(metadata, checks, gemini, indicators, throws) ==
    LET f == calculate_final_score(checks, gemini, throws)
    IN  PhishingAnalysisResponse(f[1], f[2], f[3], metadata, checks, gemini, indicators)

\* RiskScorer.adjust_score_for_context; ctx says which rules match and hour is
\* datetime.utcnow().hour
adjust_score_for_context(base_score, ctx, hour) ==
    Clamp(base_score
          + (IF ctx.bank_in_body THEN 500 ELSE 0)
          + (IF hour < 6 \/ hour > 22 THEN 300 ELSE 0)
          + (IF ctx.business_personal THEN 500 ELSE 0))

-----------------------------------------------------------------------------
(* models/deterministic_checker.py *)

\* An indicator is [type, confidence]; type is an IndicatorType value.
Indicator(type, value, reason, confidence) ==
    [type |-> type, value |-> value, reason |-> reason, confidence |-> confidence]

\* an indicator of which only the type and the confidence matter; the reason
\* is the sequence of the reasons joined by '; '
SuspiciousIndicator(type, confidence) == Indicator(type, "", <<>>, confidence)

\* type_weights.get(indicator.type, 0.7), in tenths
type_weight(type) ==
    CASE type = "url" -> 10
      [] type = "email" -> 8
      [] type = "attachment" -> 12
      [] type = "content" -> 7
      [] type = "header" -> 5
      [] OTHER -> 7

\* the loop over indicators: sum of confidence * weight * 10
RECURSIVE indicator_penalty(_)
indicator_penalty(indicators) ==
    IF indicators = <<>> THEN 0
    ELSE Head(indicators).confidence * type_weight(Head(indicators).type)
         + indicator_penalty(Tail(indicators))

\* _calculate_deterministic_score without the cap of the indicator penalty
calculate_deterministic_score_uncapped(spf_pass, dkim_pass, dmarc_pass, sender_reputation, indicators) ==
    LET results == <<spf_pass, dkim_pass, dmarc_pass>>
        auth_checks == Cardinality({k \in 1..3 : results[k] # "none"})
        auth_penalties == Cardinality({k \in 1..3 : results[k] = "false"})
        auth == IF auth_checks > 0
                THEN ((auth_checks - auth_penalties) * 3000) \div auth_checks - 1500
                ELSE 0
        rep == IF sender_reputation # NoReputation
               THEN (sender_reputation - 50) * 20
               ELSE 0
    IN  Round1(Clamp(5000 + auth + rep + indicator_penalty(indicators)))

\* _calculate_deterministic_score without the final max/min
calculate_deterministic_score_unclamped(spf_pass, dkim_pass, dmarc_pass, sender_reputation, indicators) ==
    LET results == <<spf_pass, dkim_pass, dmarc_pass>>
        auth_checks == Cardinality({k \in 1..3 : results[k] # "none"})
        auth_penalties == Cardinality({k \in 1..3 : results[k] = "false"})
        auth == IF auth_checks > 0
                THEN ((auth_checks - auth_penalties) * 3000) \div auth_checks - 1500
                ELSE 0
        rep == IF sender_reputation # NoReputation
               THEN (sender_reputation - 50) * 20
               ELSE 0
    IN  Round1(5000 + auth + rep + Min(indicator_penalty(indicators), 4000))

\* DeterministicChecker._calculate_deterministic_score; an authentication
\* outcome is "true", "false" or "none" (Optional[bool])
calculate_deterministic_score(spf_pass, dkim_pass, dmarc_pass, sender_reputation, indicators) ==
    LET results == <<spf_pass, dkim_pass, dmarc_pass>>
        auth_checks == Cardinality({k \in 1..3 : results[k] # "none"})
        auth_penalties == Cardinality({k \in 1..3 : results[k] = "false"})
        auth == IF auth_checks > 0
                THEN ((auth_checks - auth_penalties) * 3000) \div auth_checks - 1500
                ELSE 0
        rep == IF sender_reputation # NoReputation
               THEN (sender_reputation - 50) * 20
               ELSE 0
        ind == IF indicators # <<>>
               THEN Min(indicator_penalty(indicators), 4000)
               ELSE 0
    IN  Round1(Clamp(5000 + auth + rep + ind))

\* The three header checks.  A header is modelled by the result it reports
\* for the mechanism: "absent" when the header is missing or has no entry for
\* it, else the result word (pass, fail, softfail, neutral, none).

\* _check_spf on the Received-SPF header
check_spf(result) ==
    IF result = "absent" THEN "none"
    ELSE IF result = "pass" THEN "true"
    ELSE IF result \in {"fail", "softfail", "hardfail"} THEN "false"
    ELSE "none"

\* _check_dkim on the dkim= entry of Authentication-Results
check_dkim(result) ==
    IF result = "absent" THEN "none"
    ELSE IF result = "pass" THEN "true"
    ELSE IF result = "fail" \/ result = "none" THEN "false"
    ELSE "none"

\* _check_dmarc on the dmarc= entry of Authentication-Results
check_dmarc(result) ==
    IF result = "absent" THEN "none"
    ELSE IF result = "pass" THEN "true"
    ELSE IF result = "fail" THEN "false"
    ELSE "none"

\* DeterministicChecker.perform_checks on what the sub-scanners found:
\* (deterministic_checks, suspicious_indicators)
perform_checks(found) ==
    <<DeterministicChecks(found.spf, found.dkim, found.dmarc, found.reputation,
          calculate_deterministic_score(found.spf, found.dkim, found.dmarc,
                                        found.reputation, found.indicators)),
      found.indicators>>

-----------------------------------------------------------------------------
(* utils/validators.py and the sub-scanners of models/deterministic_checker.py *)

RECURSIVE Concat(_)
Concat(lists) == IF lists = <<>> THEN <<>> ELSE Head(lists) \o Concat(Tail(lists))

\* A link is modelled by what analyze_url tests of it: whether validators.url
\* accepts it, whether its host ends in a whitelisted domain or a suspicious
\* TLD, which of the six SUSPICIOUS_PATTERNS match it, the homograph, length,
\* subdomain and path tests, and whether the analysis raises.
Link(url) ==
    [url |-> url, valid |-> TRUE, whitelisted |-> FALSE, suspicious_tld |-> FALSE,
     patterns |-> {}, homograph |-> FALSE, long |-> FALSE, subdomains |-> FALSE,
     path_keywords |-> FALSE, raises |-> FALSE]

SUSPICIOUS_PATTERNS == {"ip", "shortener", "hyphens", "numbers", "mixed", "keywords"}

\* URLValidator.analyze_url: (is_suspicious, confidence, reasons)
analyze_url(url) ==
    IF url.raises THEN <<TRUE, 80, <<"Analysis error">>>>
    ELSE IF ~url.valid THEN <<TRUE, 90, <<"Invalid URL format">>>>
    ELSE IF url.whitelisted THEN <<FALSE, 10, <<"Legitimate domain">>>>
    ELSE LET hits == Cardinality(url.patterns \cap SUSPICIOUS_PATTERNS)
             confidence ==
                 (IF url.suspicious_tld THEN 30 ELSE 0) + 25 * hits
                 + (IF url.homograph THEN 40 ELSE 0) + (IF url.long THEN 20 ELSE 0)
                 + (IF url.subdomains THEN 30 ELSE 0)
                 + (IF url.path_keywords THEN 20 ELSE 0)
             reasons ==
                 (IF url.suspicious_tld THEN <<"Suspicious TLD">> ELSE <<>>)
                 \o [k \in 1..hits |-> "Suspicious pattern detected"]
                 \o (IF url.homograph THEN <<"Potential homograph attack">> ELSE <<>>)
                 \o (IF url.long THEN <<"Unusually long URL">> ELSE <<>>)
                 \o (IF url.subdomains THEN <<"Excessive subdomains">> ELSE <<>>)
                 \o (IF url.path_keywords THEN <<"Suspicious path keywords">> ELSE <<>>)
         IN  <<Min(confidence, 100) > 30, Min(confidence, 100), reasons>>

\* _analyze_urls; `failed` is an exception in the scanner's own body
analyze_urls(links, failed) ==
    IF failed THEN <<>>
    ELSE Concat([k \in DOMAIN links |->
                    LET a == analyze_url(links[k])
                    IN  IF a[1] THEN <<Indicator("url", links[k].url, a[3], a[2])>>
                        ELSE <<>>])

\* An attachment is modelled by its filename, the extension it ends in as
\* written, whether the lowered name ends in two extensions of 2 to 4
\* letters, its length and its first 50 characters.
File(name, extension, double_extension, length, head) ==
    [name |-> name, extension |-> extension, double_extension |-> double_extension,
     length |-> length, head |-> head]

\* str.lower on the extensions of the modelled filenames
lower(extension) ==
    IF extension = ".EXE" THEN ".exe"
    ELSE IF extension = ".Js" THEN ".js"
    ELSE extension

suspicious_extensions ==
    (".exe" :> 90) @@ (".scr" :> 90) @@ (".bat" :> 80) @@ (".cmd" :> 80)
    @@ (".com" :> 80) @@ (".pif" :> 90) @@ (".jar" :> 70) @@ (".js" :> 60)
    @@ (".vbs" :> 80) @@ (".ps1" :> 70) @@ (".zip" :> 40) @@ (".rar" :> 40)
    @@ (".7z" :> 40)

\* a lookup that compares the filename as written
matched_extension_case_sensitive(file) == file.extension

\* the extension of the table that filename_lower ends with
matched_extension(file) == lower(file.extension)

\* the body of the loop of _analyze_attachments for one filename
analyze_attachment(file) ==
    LET ext == matched_extension(file)
    IN  (IF ext \in DOMAIN suspicious_extensions
         THEN <<Indicator("attachment", file.name,
                          <<"Potentially dangerous file type: " \o ext>>,
                          suspicious_extensions[ext])>>
         ELSE <<>>)
        \o (IF file.double_extension
            THEN <<Indicator("attachment", file.name,
                             <<"Suspicious double extension">>, 70)>>
            ELSE <<>>)
        \o (IF file.length > 100
            THEN <<Indicator("attachment", file.head \o "...",
                             <<"Unusually long filename (potential obfuscation)">>, 50)>>
            ELSE <<>>)

\* _analyze_attachments
analyze_attachments(attachments, failed) ==
    IF failed THEN <<>>
    ELSE Concat([k \in DOMAIN attachments |-> analyze_attachment(attachments[k])])

\* A sender address is modelled by what is_suspicious_email tests of it.
Sender(address, valid, local_part, domain, free_provider, reputation, raises) ==
    [present |-> TRUE, address |-> address, valid |-> valid,
     local_part |-> local_part, domain |-> domain, free_provider |-> free_provider,
     reputation |-> reputation, raises |-> raises]

AbsentSender ==
    [present |-> FALSE, address |-> "", valid |-> FALSE, local_part |-> FALSE,
     domain |-> Link(""), free_provider |-> FALSE, reputation |-> NoReputation,
     raises |-> FALSE]

\* EmailValidator.is_suspicious_email: (is_suspicious, confidence, reasons)
is_suspicious_email(email) ==
    IF email.raises THEN <<TRUE, 80, <<"Analysis error">>>>
    ELSE IF ~email.valid THEN <<TRUE, 90, <<"Invalid email format">>>>
    ELSE LET a == analyze_url(email.domain)
             confidence ==
                 (IF email.local_part THEN 30 ELSE 0)
                 + (IF a[1] THEN (a[2] * 8) \div 10 ELSE 0)
                 + (IF email.free_provider THEN 10 ELSE 0)
             reasons ==
                 (IF email.local_part THEN <<"Suspicious local part pattern">> ELSE <<>>)
                 \o (IF a[1] THEN [k \in DOMAIN a[3] |-> "Domain: " \o a[3][k]] ELSE <<>>)
                 \o (IF email.free_provider THEN <<"Free email provider">> ELSE <<>>)
         IN  <<Min(confidence, 100) > 30, Min(confidence, 100), reasons>>

\* _analyze_email_addresses of a message without a Reply-To
analyze_email_addresses(sender, failed) ==
    IF failed \/ ~sender.present THEN <<>>
    ELSE LET a == is_suspicious_email(sender)
         IN  IF a[1] THEN <<Indicator("email", sender.address, a[3], a[2])>>
             ELSE <<>>

\* _analyze_content_patterns and _analyze_headers: the indicators of the
\* phrases and header patterns that match, none when the scanner fails
analyze_content_patterns(matches, failed) == IF failed THEN <<>> ELSE matches
analyze_headers(matches, failed) == IF failed THEN <<>> ELSE matches

\* _check_sender_reputation
check_sender_reputation(sender) ==
    IF ~sender.present THEN NoReputation ELSE sender.reputation

\* the indicators perform_checks collects, in the order of its calls;
\* `fails` names the sub-scanner in whose body an exception is raised
collect_indicators(email, fails) ==
    analyze_urls(email.links, fails = "urls")
    \o analyze_attachments(email.attachments, fails = "attachments")
    \o analyze_email_addresses(email.sender, fails = "emails")
    \o analyze_content_patterns(email.content, fails = "content")
    \o analyze_headers(email.headers, fails = "headers")

\* perform_checks that gives up on any failure
perform_checks_on_neutral_on_failure(email, fails) ==
    IF fails # "none"
    THEN <<DeterministicChecks("none", "none", "none", NoReputation, 5000), <<>>>>
    ELSE perform_checks([spf |-> check_spf(email.spf), dkim |-> check_dkim(email.dkim),
                         dmarc |-> check_dmarc(email.dmarc),
                         reputation |-> check_sender_reputation(email.sender),
                         indicators |-> collect_indicators(email, fails)])

\* DeterministicChecker.perform_checks on an email; fails = "checks" is an
\* exception that reaches its own except block
perform_checks_on(email, fails) ==
    IF fails = "checks"
    THEN <<DeterministicChecks("none", "none", "none", NoReputation, 5000), <<>>>>
    ELSE perform_checks([spf |-> check_spf(email.spf), dkim |-> check_dkim(email.dkim),
                         dmarc |-> check_dmarc(email.dmarc),
                         reputation |-> check_sender_reputation(email.sender),
                         indicators |-> collect_indicators(email, fails)])

-----------------------------------------------------------------------------
(* models/gemini_analyzer.py *)

\* GeminiAnalyzer._get_default_analysis
get_default_analysis ==
    GeminiAnalysis(5000, "Unable to perform semantic analysis (Gemini unavailable)", 10)

RECURSIVE high_confidence_count(_)
high_confidence_count(indicators) ==
    IF indicators = <<>> THEN 0
    ELSE (IF Head(indicators).confidence > 70 THEN 1 ELSE 0)
         + high_confidence_count(Tail(indicators))

\* _get_fallback_analysis that ignores the indicators and keeps the neutral 50.0
get_fallback_analysis_neutral(deterministic_indicators) ==
    GeminiAnalysis(5000,
        "Analysis based on deterministic indicators only (Gemini unavailable)", 40)

\* GeminiAnalyzer._get_fallback_analysis
get_fallback_analysis(deterministic_indicators) ==
    LET n == high_confidence_count(deterministic_indicators)
        score == IF deterministic_indicators # <<>> /\ n > 0
                 THEN Min(8000, 5000 + n * 1000)
                 ELSE 5000
    IN  GeminiAnalysis(score,
            "Analysis based on deterministic indicators only (Gemini unavailable)", 40)

\* a field the reply does not have
Absent == 0 - 1000000

\* response_data.get(key, default)
get_field(value, default) == IF value = Absent THEN default ELSE value

\* _parse_gemini_response that trusts the numbers of the reply
parse_gemini_response_unclamped(reply) ==
    CASE reply.kind = "json" ->
             GeminiAnalysis(get_field(reply.likelihood, 5000), "provider",
                            get_field(reply.confidence, 50))
      [] reply.kind = "text" ->
             GeminiAnalysis(get_field(reply.likelihood, 5000), "provider text", 30)
      [] OTHER -> get_default_analysis

\* GeminiAnalyzer._parse_gemini_response on a reply that is a JSON object
\* ("json": a missing field gets its default, numbers are clamped), JSON
\* whose fields do not convert or that is no object ("invalid": the default
\* analysis), or not JSON ("text": _extract_fallback_from_text takes the
\* first number of up to three digits after score/likelihood/risk, 50.0 when
\* there is none, with confidence 0.3)
parse_gemini_response(reply) ==
    CASE reply.kind = "json" ->
             GeminiAnalysis(Clamp(get_field(reply.likelihood, 5000)), "provider",
                            Max(0, Min(100, get_field(reply.confidence, 50))))
      [] reply.kind = "text" ->
             GeminiAnalysis(Clamp(get_field(reply.likelihood, 5000)), "provider text", 30)
      [] OTHER -> get_default_analysis

\* GeminiAnalyzer.analyze_email; reply.kind = "exception" is a provider call
\* that raised
analyze_email(initialized, deterministic_indicators, reply) ==
    IF ~initialized THEN get_default_analysis
    ELSE IF reply.kind = "exception"
         THEN get_fallback_analysis(deterministic_indicators)
         ELSE parse_gemini_response(reply)

-----------------------------------------------------------------------------
(* app.py: create_error_response *)

\* create_error_response that reports the failed item as clean
create_error_response_low ==
    PhishingAnalysisResponse(
        0, "low", FALSE, EmailMetadata(NoSender),
        DeterministicChecks("none", "none", "none", NoReputation, 0),
        GeminiAnalysis(0, "Analysis failed", 0),
        <<>>)

create_error_response ==
    PhishingAnalysisResponse(
        5000, "medium", FALSE, EmailMetadata(NoSender),
        DeterministicChecks("none", "none", "none", NoReputation, 5000),
        GeminiAnalysis(5000, "Analysis failed", 0),
        <<>>)

-----------------------------------------------------------------------------
(* One fusion on a grid of inputs. *)

NearThreshold(k) == \E t \in {400, 700, 900} : k - t \in -2..2

DetGrid == {10 * k : k \in {j \in 0..1000 : j % DetStep = 0 \/ NearThreshold(j)}}
LikGrid == {10 * k : k \in {j \in 0..1000 : j % LikStep = 0 \/ NearThreshold(j)}}
ConfGrid == {10, 30, 40, 49, 50, 90}

NoAssessment == [kind |-> "none"]

FusionInit ==
    /\ fin \in [det : DetGrid, lik : LikGrid, conf : ConfGrid]
    /\ assessment = NoAssessment
    /\ service = "ready" /\ emails = <<>> /\ phase = "idle" /\ nextTask = 1
    /\ pc = <<>> /\ waiters = <<>> /\ permits = SemaphoreLimit
    /\ env = <<>> /\ ret = <<>> /\ response = [status |-> 0]
    /\ outtextlist = <<>> /\ clean_text = <<>>

FusionInputs ==
    <<DeterministicChecks("none", "none", "none", NoReputation, fin.det),
      GeminiAnalysis(fin.lik, "provider", fin.conf)>>

\* build_response on the normal path of calculate_final_score
Fuse ==
    /\ assessment = NoAssessment
    /\ assessment' = [kind |-> "fused",
                      r |-> build_response(EmailMetadata(1), FusionInputs[1],
                                           FusionInputs[2], <<>>, FALSE)]
    /\ UNCHANGED <<fin, bulkVars, raceVars>>

\* build_response when the try block of calculate_final_score throws
FuseFallback ==
    /\ assessment = NoAssessment
    /\ assessment' = [kind |-> "deterministic_only",
                      r |-> build_response(EmailMetadata(1), FusionInputs[1],
                                           FusionInputs[2], <<>>, TRUE)]
    /\ UNCHANGED <<fin, bulkVars, raceVars>>

\* the pipeline raised and the bulk endpoint substitutes create_error_response
Degrade ==
    /\ assessment = NoAssessment
    /\ assessment' = [kind |-> "degraded", r |-> create_error_response]
    /\ UNCHANGED <<fin, bulkVars, raceVars>>

FusionNext == Fuse \/ FuseFallback \/ Degrade

FusionSpec == FusionInit /\ [][FusionNext]_vars

-----------------------------------------------------------------------------
(* app.py: the item pipeline *)

\* What one run of the pipeline meets outside the request: what the
\* sub-scanners find in the email, the provider's reply, the context of the
\* request and the hour of the wall clock, whether the try block of
\* calculate_final_score throws, and whether a stage raises out of the pipeline.
PipelineEnv(found, reply, has_context, context, hour, fusion_throws, raises) ==
    [found |-> found, reply |-> reply, has_context |-> has_context,
     context |-> context, hour |-> hour, fusion_throws |-> fusion_throws,
     raises |-> raises]

Found(spf, dkim, dmarc, reputation, indicators) ==
    [spf |-> spf, dkim |-> dkim, dmarc |-> dmarc, reputation |-> reputation,
     indicators |-> indicators]

Reply(kind, likelihood, confidence) ==
    [kind |-> kind, likelihood |-> likelihood, confidence |-> confidence]

NoContext == [bank_in_body |-> FALSE, business_personal |-> FALSE]

\* SPF fails, nothing else found; the provider answers 10.0 with confidence
\* 0.9; the context names the user's bank, which the body mentions, at noon
EnvLow ==
    PipelineEnv(Found("false", "none", "none", NoReputation, <<>>),
                Reply("json", 1000, 90), TRUE,
                [bank_in_body |-> TRUE, business_personal |-> FALSE], 12,
                FALSE, FALSE)

\* two suspicious URLs and a dangerous attachment; the provider call raises
EnvProviderFails ==
    PipelineEnv(Found("none", "none", "none", NoReputation,
                      <<SuspiciousIndicator("url", 90), SuspiciousIndicator("url", 90),
                        SuspiciousIndicator("attachment", 90)>>),
                Reply("exception", 0, 0), FALSE, NoContext, 12, FALSE, FALSE)

\* everything found; the provider answers 95.0 with confidence 0.9
EnvCritical ==
    PipelineEnv(Found("true", "true", "true", 100,
                      <<SuspiciousIndicator("attachment", 90), SuspiciousIndicator("attachment", 90),
                        SuspiciousIndicator("attachment", 90), SuspiciousIndicator("attachment", 90)>>),
                Reply("json", 9500, 90), FALSE, NoContext, 12, FALSE, FALSE)

\* a stage of the pipeline raises
EnvRaises ==
    PipelineEnv(Found("none", "none", "none", NoReputation, <<>>),
                Reply("json", 5000, 50), FALSE, NoContext, 12, FALSE, TRUE)

PipelineEnvs == {EnvLow, EnvProviderFails, EnvCritical, EnvRaises}

\* the body of an answer that carries no assessment
NoBody ==
    PhishingAnalysisResponse(0 - 1, "none", FALSE, EmailMetadata(NoSender),
        DeterministicChecks("none", "none", "none", NoReputation, 0 - 1),
        GeminiAnalysis(0 - 1, "none", 0), <<>>)

\* With the globals of app.py still None every call on them raises.
PipelineRaises(svc, e) == svc = "down" \/ e.raises

\* a bulk item pipeline that leaves the request context out
analyze_email_sync_no_context(request, svc, e) ==
    LET email_metadata == EmailMetadata(request.sender_email)
        checked == perform_checks(e.found)
        gemini_analysis == analyze_email(svc = "ready", checked[2], e.reply)
    IN  build_response(email_metadata, checked[1], gemini_analysis,
                       checked[2], e.fusion_throws)

\* analyze_email_sync
analyze_email_sync(request, svc, e) ==
    LET email_metadata == EmailMetadata(request.sender_email)
        checked == perform_checks(e.found)
        gemini_analysis == analyze_email(svc = "ready", checked[2], e.reply)
        original_score == gemini_analysis.phishing_likelihood
        adjusted_score == IF e.has_context
                          THEN adjust_score_for_context(original_score, e.context, e.hour)
                          ELSE original_score
    IN  build_response(email_metadata, checked[1],
                       [gemini_analysis EXCEPT !.phishing_likelihood = adjusted_score],
                       checked[2], e.fusion_throws)

\* the context block of analyze_email: the reasoning gets the note, with
\* both scores formatted to one decimal
adjusted_analysis_with_note(gemini_analysis, original_score, adjusted_score) ==
    IF adjusted_score # original_score
    THEN [gemini_analysis EXCEPT
              !.phishing_likelihood = adjusted_score,
              !.reasoning_note = <<Round1(original_score), Round1(adjusted_score)>>]
    ELSE gemini_analysis

\* POST /analyze, analyze_email of app.py: the response body, or HTTP 500 when
\* a stage raises
analyze_email_single(request, svc, e) ==
    IF PipelineRaises(svc, e)
    THEN [status |-> 500, body |-> NoBody]
    ELSE LET email_metadata == EmailMetadata(request.sender_email)
             checked == perform_checks(e.found)
             gemini_analysis == analyze_email(svc = "ready", checked[2], e.reply)
             original_score == gemini_analysis.phishing_likelihood
             adjusted_score == IF e.has_context
                               THEN adjust_score_for_context(original_score, e.context, e.hour)
                               ELSE original_score
         IN  [status |-> 200,
              body |-> build_response(email_metadata, checked[1],
                           adjusted_analysis_with_note(gemini_analysis, original_score,
                                                       adjusted_score),
                           checked[2], e.fusion_throws)]

\* analyze_emails_bulk.analyze_single_email: the value the task returns
analyze_single_email(request, svc, e) ==
    IF PipelineRaises(svc, e)
    THEN create_error_response
    ELSE analyze_email_sync(request, svc, e)

-----------------------------------------------------------------------------
(* models/risk_scorer.py: get_risk_summary *)

LevelCount(responses, level) ==
    Cardinality({i \in DOMAIN responses : responses[i].risk_level = level})

\* get_risk_summary that counts only the critical results as phishing
get_risk_summary_critical_only(responses) ==
    IF responses = <<>> THEN [empty |-> TRUE]
    ELSE LET high == SelectSeq(responses,
                         LAMBDA r : r.risk_level \in {"high", "critical"})
         IN  [empty |-> FALSE,
              total_emails |-> Len(responses),
              phishing_detected |-> LevelCount(responses, "critical"),
              risk_level_distribution |->
                  [level \in RiskLevel |-> LevelCount(responses, level)],
              maximum |-> CHOOSE m \in {responses[i].risk_score : i \in DOMAIN responses} :
                              \A i \in DOMAIN responses : responses[i].risk_score <= m,
              minimum |-> CHOOSE m \in {responses[i].risk_score : i \in DOMAIN responses} :
                              \A i \in DOMAIN responses : responses[i].risk_score >= m,
              high_risk_emails |->
                  [k \in 1..Len(high) |->
                      [sender |-> high[k].email_metadata.sender,
                       risk_score |-> high[k].risk_score,
                       risk_level |-> high[k].risk_level]]]

\* RiskScorer.get_risk_summary; of an empty list it is the empty dict
get_risk_summary(responses) ==
    IF responses = <<>> THEN [empty |-> TRUE]
    ELSE LET high == SelectSeq(responses,
                         LAMBDA r : r.risk_level \in {"high", "critical"})
         IN  [empty |-> FALSE,
              total_emails |-> Len(responses),
              phishing_detected |->
                  Cardinality({i \in DOMAIN responses : responses[i].is_phishing}),
              risk_level_distribution |->
                  [level \in RiskLevel |-> LevelCount(responses, level)],
              maximum |-> CHOOSE m \in {responses[i].risk_score : i \in DOMAIN responses} :
                              \A i \in DOMAIN responses : responses[i].risk_score <= m,
              minimum |-> CHOOSE m \in {responses[i].risk_score : i \in DOMAIN responses} :
                              \A i \in DOMAIN responses : responses[i].risk_score >= m,
              high_risk_emails |->
                  [k \in 1..Len(high) |->
                      [sender |-> high[k].email_metadata.sender,
                       risk_score |-> high[k].risk_score,
                       risk_level |-> high[k].risk_level]]]

-----------------------------------------------------------------------------
(* app.py: analyze_emails_bulk *)

N == Len(emails)

\* EmailAnalysisRequest: the items of a batch carry distinct senders
Request(n) == [i \in 1..n |-> [sender_email |-> i]]

BatchSizes == (0..MaxBatch) \cup {MaxItems + 1}

\* the field without min_items
ValidBatch_no_min(batch) == Len(batch) <= MaxItems

\* BulkAnalysisRequest.emails: Field(..., min_items=1, max_items=50)
ValidBatch(batch) == Len(batch) >= MinItems /\ Len(batch) <= MaxItems

\* what a task holds before it has returned
NoResponse ==
    PhishingAnalysisResponse(0 - 1, "none", FALSE, EmailMetadata(NoSender),
        DeterministicChecks("none", "none", "none", NoReputation, 0 - 1),
        GeminiAnalysis(0 - 1, "none", 0), <<>>)
Pending == [state |-> "pending", value |-> NoResponse]
Returned(r) == [state |-> "result", value |-> r]

\* an acquire that never blocks
CanAcquire_always(value) == TRUE

\* asyncio.Semaphore.acquire takes a permit only while the counter is positive
CanAcquire(value) == value > 0

\* a wait that returns with the first task that is done
GatherDone_first(p) == \E i \in DOMAIN p : p[i] = "done"

\* outcomes collected last task first
Gather_reversed(r) == [i \in 1..Len(r) |-> r[Len(r) + 1 - i]]

\* asyncio.gather(*tasks, return_exceptions=True) returns once every task is done
GatherDone(p) == \A i \in DOMAIN p : p[i] = "done"

\* ... and returns the tasks' outcomes in the order of `tasks`
Gather(r) == [i \in 1..Len(r) |-> r[i]]

\* the loop that replaces exceptions by create_error_response
valid_results(results) ==
    [i \in 1..Len(results) |->
        IF results[i].state = "exception" THEN create_error_response
        ELSE results[i].value]

Init ==
    /\ service = "down"
    /\ emails \in {Request(n) : n \in BatchSizes}
    /\ phase = "idle"
    /\ nextTask = 1
    /\ pc = <<>> /\ waiters = <<>> /\ permits = SemaphoreLimit
    /\ env = <<>> /\ ret = <<>>
    /\ response = [status |-> 0]
    /\ outtextlist = <<>> /\ clean_text = <<>>
    /\ fin = [det |-> 0, lik |-> 0, conf |-> 0]
    /\ assessment = NoAssessment

\* lifespan: the components are created before the first request is served
\* (a request served without it, as under the test client, finds them None)
Startup ==
    /\ phase = "idle" /\ service = "down"
    /\ service' = "ready"
    /\ UNCHANGED <<emails, phase, nextTask, pc, waiters, permits, env, ret,
                   response, raceVars, fusionVars>>

\* request validation fails: the handler is not entered
RejectRequest ==
    /\ phase = "idle" /\ ~ValidBatch(emails)
    /\ phase' = "rejected"
    /\ response' = [status |-> 422]
    /\ UNCHANGED <<service, emails, nextTask, pc, waiters, permits, env, ret,
                   raceVars, fusionVars>>

\* analyze_emails_bulk up to `await asyncio.gather`: the semaphore and one
\* task per email
StartBulk ==
    /\ phase = "idle" /\ ValidBatch(emails)
    /\ phase' = "gathering"
    /\ permits' = SemaphoreLimit /\ waiters' = <<>>
    /\ nextTask' = 1
    /\ pc' = [i \in 1..N |-> "created"]
    /\ env' = [i \in 1..N |-> EnvRaises]
    /\ ret' = [i \in 1..N |-> Pending]
    /\ UNCHANGED <<service, emails, response, raceVars, fusionVars>>

\* the first step of the next task: `async with semaphore`, then the pipeline
\* is handed to the executor
StartTask ==
    /\ phase = "gathering" /\ nextTask <= N
    /\ nextTask' = nextTask + 1
    /\ IF CanAcquire(permits)
       THEN /\ permits' = permits - 1
            /\ pc' = [pc EXCEPT ![nextTask] = "running"]
            /\ UNCHANGED waiters
       ELSE /\ waiters' = Append(waiters, nextTask)
            /\ pc' = [pc EXCEPT ![nextTask] = "waiting"]
            /\ UNCHANGED permits
    /\ UNCHANGED <<service, emails, phase, env, ret, response, raceVars, fusionVars>>

\* a released permit goes to the task that has waited longest
Admit ==
    /\ phase = "gathering" /\ waiters # <<>> /\ CanAcquire(permits)
    /\ permits' = permits - 1
    /\ pc' = [pc EXCEPT ![Head(waiters)] = "running"]
    /\ waiters' = Tail(waiters)
    /\ UNCHANGED <<service, emails, phase, nextTask, env, ret, response,
                   raceVars, fusionVars>>

\* a task that leaves `async with` without giving its permit back
CompleteIn_keeps_permit(i, from, envs) ==
    /\ phase = "gathering" /\ nextTask > N /\ i \in DOMAIN pc /\ pc[i] = from
    /\ \E e \in envs :
          /\ env' = [env EXCEPT ![i] = IF PipelineRaises(service, e) THEN EnvRaises ELSE e]
          /\ ret' = [ret EXCEPT ![i] = Returned(analyze_single_email(emails[i], service, e))]
    /\ pc' = [pc EXCEPT ![i] = "done"]
    /\ UNCHANGED <<service, emails, phase, nextTask, waiters, permits, response,
                   raceVars, fusionVars>>

\* the pipeline of item i returns or raises; the task returns its response or
\* the error response and leaves `async with`.  The event loop resumes a task
\* only after the first step of every task of the batch has run.
CompleteIn(i, from, envs) ==
    /\ phase = "gathering" /\ nextTask > N /\ i \in DOMAIN pc /\ pc[i] = from
    /\ \E e \in envs :
          /\ env' = [env EXCEPT ![i] = IF PipelineRaises(service, e) THEN EnvRaises ELSE e]
          /\ ret' = [ret EXCEPT ![i] = Returned(analyze_single_email(emails[i], service, e))]
    /\ permits' = permits + 1
    /\ pc' = [pc EXCEPT ![i] = "done"]
    /\ UNCHANGED <<service, emails, phase, nextTask, waiters, response,
                   raceVars, fusionVars>>

Complete(i, from) == CompleteIn(i, from, PipelineEnvs)

Finish(i) == Complete(i, "running")

\* gather returns; the results are collected, summarised and sent.  With the
\* globals still None risk_scorer.get_risk_summary raises and the handler
\* answers 500.
Respond ==
    /\ phase = "gathering" /\ nextTask > N /\ GatherDone(pc)
    /\ LET results == Gather(ret)
           valid == valid_results(results)
       IN  IF service = "down"
           THEN /\ phase' = "failed"
                /\ response' = [status |-> 500]
           ELSE /\ phase' = "responded"
                /\ response' = [status |-> 200, results |-> valid,
                                summary |-> get_risk_summary(valid)]
    /\ UNCHANGED <<service, emails, nextTask, pc, waiters, permits, env, ret,
                   raceVars, fusionVars>>

Next ==
    \/ Startup
    \/ RejectRequest
    \/ StartBulk
    \/ StartTask
    \/ Admit
    \/ \E i \in 1..N : Finish(i)
    \/ Respond

Spec == Init /\ [][Next]_vars

\* The same orchestrator when every pipeline terminates and the event loop
\* keeps running whatever is ready.
FairInit ==
    /\ service = "ready"
    /\ emails \in {Request(n) : n \in 1..MaxBatch}
    /\ phase = "idle"
    /\ nextTask = 1
    /\ pc = <<>> /\ waiters = <<>> /\ permits = SemaphoreLimit
    /\ env = <<>> /\ ret = <<>>
    /\ response = [status |-> 0]
    /\ outtextlist = <<>> /\ clean_text = <<>>
    /\ fin = [det |-> 0, lik |-> 0, conf |-> 0]
    /\ assessment = NoAssessment

\* a pipeline that terminates: it returns its response or it raises
Terminate(i) == CompleteIn(i, "running", {EnvLow, EnvRaises})

FairNext ==
    \/ StartBulk
    \/ StartTask
    \/ Admit
    \/ \E i \in 1..N : Terminate(i)
    \/ Respond

FairSpec == FairInit /\ [][FairNext]_vars /\ WF_vars(FairNext)

-----------------------------------------------------------------------------
(* The pipelines of one batch as threads of the executor.                  *)
(* email_parser is one object for the process, its html_processor one      *)
(* HTMLProcessor and its h one HTML2Text: parse_raw_email of an email with *)
(* an HTML body calls h.handle(html), which appends the converted text to  *)
(* the buffer of h (feed) and then joins, returns and clears it (finish).  *)

RaceInit ==
    /\ service = "ready"
    /\ emails \in {Request(n) : n \in 1..MaxRaceBatch}
    /\ phase = "idle"
    /\ nextTask = 1
    /\ pc = <<>> /\ waiters = <<>> /\ permits = SemaphoreLimit
    /\ env = <<>> /\ ret = <<>>
    /\ response = [status |-> 0]
    /\ outtextlist = <<>>
    /\ clean_text = [i \in 1..Len(emails) |-> <<>>]
    /\ fin = [det |-> 0, lik |-> 0, conf |-> 0]
    /\ assessment = NoAssessment

\* extract_text_and_links: self.h.handle(html_content), the feed
HandleFeed(i) ==
    /\ phase = "gathering" /\ i \in DOMAIN pc /\ pc[i] = "running"
    /\ outtextlist' = Append(outtextlist, i)
    /\ pc' = [pc EXCEPT ![i] = "feeding"]
    /\ UNCHANGED <<service, emails, phase, nextTask, waiters, permits, env, ret,
                   response, clean_text, fusionVars>>

\* extract_text_and_links: self.h.handle(html_content), the finish
HandleFinish(i) ==
    /\ phase = "gathering" /\ i \in DOMAIN pc /\ pc[i] = "feeding"
    /\ clean_text' = [clean_text EXCEPT ![i] = outtextlist]
    /\ outtextlist' = <<>>
    /\ pc' = [pc EXCEPT ![i] = "parsed"]
    /\ UNCHANGED <<service, emails, phase, nextTask, waiters, permits, env, ret,
                   response, fusionVars>>

\* the rest of the pipeline of item i, after parse_raw_email
FinishParsed(i) == Complete(i, "parsed")

RaceNext ==
    \/ StartBulk
    \/ StartTask
    \/ \E i \in 1..N : HandleFeed(i)
    \/ \E i \in 1..N : HandleFinish(i)
    \/ \E i \in 1..N : FinishParsed(i)
    \/ Respond

RaceSpec == RaceInit /\ [][RaceNext]_vars

-----------------------------------------------------------------------------
(* A provider that may stay silent: model.generate_content is called with  *)
(* no timeout, so a call the provider never answers never returns.         *)

LiveInit ==
    /\ service = "ready"
    /\ emails \in {Request(n) : n \in 1..MaxLiveBatch}
    /\ phase = "idle"
    /\ nextTask = 1
    /\ pc = <<>> /\ waiters = <<>> /\ permits = SemaphoreLimit
    /\ env = <<>> /\ ret = <<>>
    /\ response = [status |-> 0]
    /\ outtextlist = <<>> /\ clean_text = <<>>
    /\ fin = [det |-> 0, lik |-> 0, conf |-> 0]
    /\ assessment = NoAssessment

\* GeminiAnalyzer.analyze_email: the call of item i blocks in generate_content
ProviderSilent(i) ==
    /\ phase = "gathering" /\ nextTask > N /\ i \in DOMAIN pc /\ pc[i] = "running"
    /\ pc' = [pc EXCEPT ![i] = "blocked"]
    /\ UNCHANGED <<service, emails, phase, nextTask, waiters, permits, env, ret,
                   response, raceVars, fusionVars>>

LiveNext ==
    \/ StartBulk
    \/ StartTask
    \/ \E i \in 1..N : Finish(i)
    \/ \E i \in 1..N : ProviderSilent(i)
    \/ Respond

\* The event loop and the executor run whatever can run.
LiveSpec == LiveInit /\ [][LiveNext]_vars /\ WF_vars(LiveNext)

-----------------------------------------------------------------------------
(* The item pipeline run on one request, by POST /analyze and as an item   *)
(* of POST /analyze/bulk, at different hours of the wall clock.            *)

MaxRuns == 2     \* runs of the pipeline on the same inputs

\* datetime.utcnow().hour at the time of a run, around the two limits
Hours == {5, 6, 22, 23}

PipelineFound ==
    {Found("none", "none", "none", NoReputation, <<>>),
     Found("false", "none", "none", NoReputation, <<>>),
     Found("none", "none", "none", NoReputation,
           <<SuspiciousIndicator("url", 90), SuspiciousIndicator("url", 90)>>),
     Found("true", "true", "true", 100,
           <<SuspiciousIndicator("attachment", 90), SuspiciousIndicator("attachment", 90),
             SuspiciousIndicator("attachment", 90), SuspiciousIndicator("attachment", 90)>>)}

PipelineReplies ==
    {Reply("json", l, c) : l \in {0, 5000, 6900, 9600, 9800, 10000}, c \in {30, 90}}
        \cup {Reply("exception", 0, 0)}

PipelineContexts ==
    {<<FALSE, NoContext>>}
        \cup {<<TRUE, [bank_in_body |-> b, business_personal |-> p]>> : b, p \in BOOLEAN}

PipelineInputs ==
    {PipelineEnv(f, r, c[1], c[2], 12, FALSE, FALSE) :
         f \in PipelineFound, r \in PipelineReplies, c \in PipelineContexts}
        \cup {EnvRaises}

PipelineInit ==
    /\ fin \in PipelineInputs
    /\ assessment = <<>>
    /\ service = "ready" /\ emails = <<>> /\ phase = "idle" /\ nextTask = 1
    /\ pc = <<>> /\ waiters = <<>> /\ permits = SemaphoreLimit
    /\ env = <<>> /\ ret = <<>> /\ response = [status |-> 0]
    /\ outtextlist = <<>> /\ clean_text = <<>>

\* one POST /analyze of the request at hour h
AnalyzeSingle(h) ==
    /\ Len(assessment) < MaxRuns
    /\ LET answer == analyze_email_single([sender_email |-> 1], service,
                                          [fin EXCEPT !.hour = h])
       IN  assessment' = Append(assessment,
               [kind |-> "single", hour |-> h, status |-> answer.status,
                r |-> answer.body])
    /\ UNCHANGED <<fin, bulkVars, raceVars>>

\* the request as an item of a bulk call at hour h: the entry of the result
AnalyzeBulkItem(h) ==
    /\ Len(assessment) < MaxRuns
    /\ assessment' = Append(assessment,
           [kind |-> "bulk", hour |-> h, status |-> 200,
            r |-> analyze_single_email([sender_email |-> 1], service,
                                       [fin EXCEPT !.hour = h])])
    /\ UNCHANGED <<fin, bulkVars, raceVars>>

PipelineNext ==
    \/ \E h \in Hours : AnalyzeSingle(h)
    \/ \E h \in Hours : AnalyzeBulkItem(h)

PipelineSpec == PipelineInit /\ [][PipelineNext]_vars

-----------------------------------------------------------------------------
(* The semantic stage on its own: GeminiAnalyzer.analyze_email on every    *)
(* provider outcome, then the context block of the handlers.               *)

MaxHighConfidence == 4   \* most indicators of confidence above 0.7 in one email

\* n indicators of confidence 0.9 after one of confidence 0.7
IndicatorsWithHigh(n) ==
    [k \in 1..(n + 1) |->
        IF k = 1 THEN SuspiciousIndicator("content", 70)
        ELSE SuspiciousIndicator("url", 90)]

SemanticIndicators ==
    {<<>>} \cup {IndicatorsWithHigh(n) : n \in 0..MaxHighConfidence}

SemanticReplies ==
    {Reply("json", l, c) : l \in {Absent, 0 - 500, 0, 4250, 10000, 15000},
                           c \in {Absent, 0 - 10, 0, 50, 100, 150}}
        \cup {Reply("text", l, 0) : l \in {Absent, 0, 8500, 99900}}
        \cup {Reply("invalid", 0, 0), Reply("exception", 0, 0)}

SemanticInit ==
    /\ fin \in [initialized : BOOLEAN, indicators : SemanticIndicators,
                reply : SemanticReplies]
    /\ assessment = NoAssessment
    /\ service = "ready" /\ emails = <<>> /\ phase = "idle" /\ nextTask = 1
    /\ pc = <<>> /\ waiters = <<>> /\ permits = SemaphoreLimit
    /\ env = <<>> /\ ret = <<>> /\ response = [status |-> 0]
    /\ outtextlist = <<>> /\ clean_text = <<>>

\* gemini_analyzer.analyze_email(metadata_dict, body, suspicious_indicators)
SemanticStage ==
    /\ assessment = NoAssessment
    /\ assessment' = [kind |-> "semantic",
                      g |-> analyze_email(fin.initialized, fin.indicators, fin.reply)]
    /\ UNCHANGED <<fin, bulkVars, raceVars>>

\* `if request.additional_context:` of analyze_email, at hour h
ApplyContext(ctx, h) ==
    /\ assessment.kind = "semantic"
    /\ LET original_score == assessment.g.phishing_likelihood
           adjusted_score == adjust_score_for_context(original_score, ctx, h)
       IN  assessment' = [kind |-> "adjusted",
                          g |-> adjusted_analysis_with_note(assessment.g, original_score,
                                                            adjusted_score)]
    /\ UNCHANGED <<fin, bulkVars, raceVars>>

SemanticNext ==
    \/ SemanticStage
    \/ \E c \in PipelineContexts, h \in Hours : c[1] /\ ApplyContext(c[2], h)

SemanticSpec == SemanticInit /\ [][SemanticNext]_vars

-----------------------------------------------------------------------------
(* The deterministic stage on its own: the header checks and the score on  *)
(* every combination of header results, reputation and indicators.         *)

MaxIndicators == 4    \* most indicators of one kind in one email

SpfResults == {"absent", "pass", "fail", "softfail", "neutral", "none"}
AuthResults == {"absent", "pass", "fail", "neutral", "none"}

\* analyze_domain_reputation: None, or a score in [0,1]
Reputations == {NoReputation, 0, 37, 100}

IndicatorKinds ==
    {SuspiciousIndicator(t, c) :
         t \in {"url", "email", "attachment", "content", "header"}, c \in {72, 90}}

Repeated(indicator, n) == [k \in 1..n |-> indicator]

IndicatorLists ==
    {Repeated(i, n) : i \in IndicatorKinds, n \in 0..MaxIndicators}
        \cup {<<SuspiciousIndicator("url", 90), SuspiciousIndicator("header", 72),
                SuspiciousIndicator("attachment", 90)>>}

DetInit ==
    /\ fin \in [spf : SpfResults, dkim : AuthResults, dmarc : AuthResults,
                reputation : Reputations, indicators : IndicatorLists]
    /\ assessment = NoAssessment
    /\ service = "ready" /\ emails = <<>> /\ phase = "idle" /\ nextTask = 1
    /\ pc = <<>> /\ waiters = <<>> /\ permits = SemaphoreLimit
    /\ env = <<>> /\ ret = <<>> /\ response = [status |-> 0]
    /\ outtextlist = <<>> /\ clean_text = <<>>

\* perform_checks: the header checks, the sub-scanners' findings, the score
PerformChecks ==
    /\ assessment = NoAssessment
    /\ assessment' =
           [kind |-> "checked",
            checks |-> perform_checks(Found(check_spf(fin.spf), check_dkim(fin.dkim),
                                            check_dmarc(fin.dmarc), fin.reputation,
                                            fin.indicators))[1]]
    /\ UNCHANGED <<fin, bulkVars, raceVars>>

\* perform_checks when a sub-scanner raises: DeterministicChecks(score=50.0)
PerformChecksFails ==
    /\ assessment = NoAssessment
    /\ assessment' =
           [kind |-> "minimal",
            checks |-> DeterministicChecks("none", "none", "none", NoReputation, 5000)]
    /\ UNCHANGED <<fin, bulkVars, raceVars>>

DetNext == PerformChecks \/ PerformChecksFails

DetSpec == DetInit /\ [][DetNext]_vars

-----------------------------------------------------------------------------
(* The extractor on emails with links, attachments and a sender, with a    *)
(* failure in any one sub-scanner or in perform_checks itself.             *)

MaxLinks == 2          \* links of one email
MaxAttachments == 2    \* attachments of one email

\* the links of tests/test_deterministic_checker.py and their neighbours
ShortenerLink == [Link("http://bit.ly/suspicious") EXCEPT !.patterns = {"shortener"}]
IpLoginLink ==
    [Link("https://192.168.1.1/login") EXCEPT !.patterns = {"ip"}, !.path_keywords = TRUE]
KeywordLink ==
    [Link("http://secure-bankofamerica.phishing.com/verify") EXCEPT
         !.patterns = {"keywords"}, !.path_keywords = TRUE]
RaisingLink == [Link("http://raises.example/") EXCEPT !.raises = TRUE]

LinkKinds ==
    {ShortenerLink, IpLoginLink, KeywordLink, RaisingLink,
     [Link("http://192.168.1.1/") EXCEPT !.patterns = {"ip"}],
     [Link("http://tinyurl.com/login") EXCEPT
          !.patterns = {"shortener"}, !.path_keywords = TRUE],
     [Link("https://www.chase.com/login") EXCEPT
          !.whitelisted = TRUE, !.path_keywords = TRUE],
     [Link("not a url") EXCEPT !.valid = FALSE],
     Link("http://example.org/news")}

ExeFile == File("document.exe", ".exe", FALSE, 12, "document.exe")

FileKinds ==
    {ExeFile,
     File("invoice.pdf", ".pdf", FALSE, 11, "invoice.pdf"),
     File("script.js", ".js", FALSE, 9, "script.js"),
     File("REPORT.EXE", ".EXE", FALSE, 10, "REPORT.EXE"),
     File("Loader.Js", ".Js", FALSE, 9, "Loader.Js"),
     File("invoice.pdf.exe", ".exe", TRUE, 15, "invoice.pdf.exe"),
     File("archive.tar.gz", ".gz", TRUE, 14, "archive.tar.gz"),
     File("backup.zip", ".zip", FALSE, 10, "backup.zip"),
     File("minutes of the meeting (long).txt", ".txt", FALSE, 120,
          "minutes of the meeting")}

RaisingSender ==
    Sender("raises@example.org", TRUE, FALSE, Link("http://example.org"), FALSE, 50, TRUE)

SenderKinds ==
    {AbsentSender, RaisingSender,
     Sender("alice@example.org", TRUE, FALSE, Link("http://example.org"), FALSE, 50, FALSE),
     Sender("alert@secure-login.tk", TRUE, FALSE,
            [Link("http://secure-login.tk") EXCEPT
                 !.suspicious_tld = TRUE, !.patterns = {"keywords"}],
            FALSE, 20, FALSE)}

SeqsUpTo(kinds, n) == UNION {[1..k -> kinds] : k \in 0..n}

UrgentPhrase == Indicator("content", "urgent action", <<"Urgency manipulation tactic">>, 80)
MissingMessageId ==
    Indicator("header", "Missing Message-ID",
              <<"Missing Message-ID header (unusual for legitimate emails)">>, 40)

FailurePoints == {"none", "urls", "attachments", "emails", "content", "headers", "checks"}

ExtractorEmail(links, attachments, sender, content, headers) ==
    [spf |-> "absent", dkim |-> "absent", dmarc |-> "absent",
     links |-> links, attachments |-> attachments, sender |-> sender,
     content |-> content, headers |-> headers]

ExtractorEmails ==
    {ExtractorEmail(l, a, sd, <<>>, <<MissingMessageId>>) :
         l \in SeqsUpTo(LinkKinds, MaxLinks), a \in {<<>>, <<ExeFile>>},
         sd \in SenderKinds}
    \cup {ExtractorEmail(<<>>, a, AbsentSender, c, <<>>) :
              a \in SeqsUpTo(FileKinds, MaxAttachments),
              c \in {<<>>, <<UrgentPhrase>>}}

ExtractorInit ==
    /\ fin \in [email : ExtractorEmails, fails : FailurePoints]
    /\ assessment = NoAssessment
    /\ service = "ready" /\ emails = <<>> /\ phase = "idle" /\ nextTask = 1
    /\ pc = <<>> /\ waiters = <<>> /\ permits = SemaphoreLimit
    /\ env = <<>> /\ ret = <<>> /\ response = [status |-> 0]
    /\ outtextlist = <<>> /\ clean_text = <<>>

\* deterministic_checker.perform_checks(metadata, body)
Extract ==
    /\ assessment = NoAssessment
    /\ LET checked == perform_checks_on(fin.email, fin.fails)
       IN  assessment' = [kind |-> "extracted", checks |-> checked[1],
                          indicators |-> checked[2]]
    /\ UNCHANGED <<fin, bulkVars, raceVars>>

ExtractorNext == Extract

ExtractorSpec == ExtractorInit /\ [][ExtractorNext]_vars

-----------------------------------------------------------------------------
(* The item pipeline stage by stage: analyze_email_sync is one synchronous *)
(* function run by an executor thread; each task of a batch runs its own.  *)

MaxStageBatch == 2    \* items of a batch whose stages are followed

Stages == <<"extractor", "provider", "fusion">>

\* where the pipeline stands once a stage has returned
stage_done(stage) ==
    IF stage = "extractor" THEN "extracted"
    ELSE IF stage = "provider" THEN "analysed"
    ELSE "built"

\* a pipeline that calls the provider before it extracts
next_stage_provider_first(position) ==
    IF position = "running" THEN "provider"
    ELSE IF position = "analysed" THEN "extractor"
    ELSE IF position = "extracted" THEN "fusion"
    ELSE "none"

\* the call analyze_email_sync makes next: perform_checks, then
\* gemini_analyzer.analyze_email, then risk_scorer.build_response
next_stage(position) ==
    IF position = "running" THEN "extractor"
    ELSE IF position = "extracted" THEN "provider"
    ELSE IF position = "analysed" THEN "fusion"
    ELSE "none"

StageEvent(stage, edge) == [stage |-> stage, edge |-> edge]

StageInit ==
    /\ service = "ready"
    /\ emails \in {Request(n) : n \in 1..MaxStageBatch}
    /\ phase = "idle"
    /\ nextTask = 1
    /\ pc = <<>> /\ waiters = <<>> /\ permits = SemaphoreLimit
    /\ env = <<>> /\ ret = <<>>
    /\ response = [status |-> 0]
    /\ outtextlist = <<>> /\ clean_text = <<>>
    /\ fin = [det |-> 0, lik |-> 0, conf |-> 0]
    /\ assessment = [i \in 1..N |-> <<>>]

\* the thread of item i calls its next stage
EnterStage(i) ==
    /\ phase = "gathering" /\ i \in DOMAIN pc
    /\ next_stage(pc[i]) # "none"
    /\ pc' = [pc EXCEPT ![i] = next_stage(pc[i])]
    /\ assessment' = [assessment EXCEPT
                          ![i] = Append(@, StageEvent(next_stage(pc[i]), "call"))]
    /\ UNCHANGED <<service, emails, phase, nextTask, waiters, permits, env, ret,
                   response, raceVars, fin>>

\* the stage item i is in returns to analyze_email_sync
LeaveStage(i) ==
    /\ phase = "gathering" /\ i \in DOMAIN pc
    /\ pc[i] \in Range(Stages)
    /\ pc' = [pc EXCEPT ![i] = stage_done(pc[i])]
    /\ assessment' = [assessment EXCEPT ![i] = Append(@, StageEvent(pc[i], "return"))]
    /\ UNCHANGED <<service, emails, phase, nextTask, waiters, permits, env, ret,
                   response, raceVars, fin>>

\* the stage item i is in raises: the later stages are not run
StageRaises(i) == \E stage \in Range(Stages) : CompleteIn(i, stage, {EnvRaises})

\* build_response has returned: the task returns the response
ReturnResponse(i) == CompleteIn(i, "built", PipelineEnvs \ {EnvRaises})

StageNext ==
    \/ StartBulk
    \/ StartTask
    \/ \E i \in 1..N : EnterStage(i)
    \/ \E i \in 1..N : LeaveStage(i)
    \/ \E i \in 1..N : StageRaises(i)
    \/ \E i \in 1..N : ReturnResponse(i)
    \/ Respond

StageSpec == StageInit /\ [][StageNext]_vars

-----------------------------------------------------------------------------
(* The fusion under every configuration of the weights: settings reads     *)
(* DETERMINISTIC_WEIGHT and GEMINI_WEIGHT from the environment.            *)

\* configured weights in tenths, 0.0 to 1.0
WeightGrid == 0..10

WeightInputs ==
    [wd : WeightGrid, wg : WeightGrid, det : {0, 3500, 10000},
     lik : {0, 8000}, conf : {0, 49, 50, 100}]

WeightInit ==
    /\ fin \in {w \in WeightInputs : w.wd + w.wg = 10}
    /\ assessment = NoAssessment
    /\ service = "ready" /\ emails = <<>> /\ phase = "idle" /\ nextTask = 1
    /\ pc = <<>> /\ waiters = <<>> /\ permits = SemaphoreLimit
    /\ env = <<>> /\ ret = <<>> /\ response = [status |-> 0]
    /\ outtextlist = <<>> /\ clean_text = <<>>

\* calculate_final_score of a scorer constructed with weights fin.wd, fin.wg
FuseWithWeights ==
    /\ assessment = NoAssessment
    /\ assessment' =
           [kind |-> "weighted",
            weights |-> effective_weights(fin.wd, fin.wg, fin.conf),
            score |-> Round1(Clamp(blended_score(fin.det, fin.lik, fin.wd, fin.wg, fin.conf)))]
    /\ UNCHANGED <<fin, bulkVars, raceVars>>

WeightNext == FuseWithWeights

WeightSpec == WeightInit /\ [][WeightNext]_vars

-----------------------------------------------------------------------------
(* Properties. *)

Results == response.results
InFlight == {i \in DOMAIN pc : pc[i] = "running"}
ProviderFailed(k) == ~env[k].raises /\ env[k].reply.kind = "exception"

\* C1: a batch of N accepted emails is answered with exactly N results, and
\* result i is what the pipeline of input i returned for input i, whatever
\* order the pipelines finished in and whichever of them failed.
C1_IndexStableResults ==
    phase = "responded" =>
        /\ Len(Results) = N
        /\ \A i \in 1..N :
              /\ Results[i] = ret[i].value
              /\ Results[i] = analyze_single_email(emails[i], service, env[i])
              /\ ~env[i].raises =>
                     Results[i].email_metadata.sender = emails[i].sender_email

C1_Witness ==
    /\ phase = "responded" /\ N = MaxBatch
    /\ env[1].raises /\ ~env[2].raises /\ env[N].raises
    /\ Results[2].email_metadata.sender = 2
    /\ Results[3].risk_level = "critical" /\ Results[4].risk_level = "low"

\* C2: at most 5 item pipelines of a bulk request hold a permit at once, and
\* the tasks that have started and hold none are queued at the semaphore.
C2_AtMostFiveInFlight ==
    /\ Cardinality(InFlight) <= 5
    /\ \A i \in DOMAIN pc : pc[i] = "waiting" <=> i \in Range(waiters)

C2_Witness ==
    /\ Cardinality(InFlight) = 5
    /\ waiters # <<>>
    /\ permits = 0 /\ nextTask > N

\* C3: when the pipeline of item k raises, entry k is the synthetic degraded
\* assessment (50.0, MEDIUM, not flagged, no indicators, reasoning "Analysis
\* failed"), and every other entry is the assessment its own pipeline computed
\* from its own data.
C3_FailureIsolated ==
    phase = "responded" =>
        \A k \in 1..N :
            IF env[k].raises
            THEN /\ Results[k].risk_score = 5000
                 /\ Results[k].risk_level = "medium"
                 /\ Results[k].is_phishing = FALSE
                 /\ Results[k].suspicious_indicators = <<>>
                 /\ Results[k].gemini_analysis.reasoning = "Analysis failed"
            ELSE Results[k] = analyze_email_sync(emails[k], service, env[k])

C3_Witness ==
    /\ phase = "responded" /\ N >= 3
    /\ env[2].raises /\ Results[2].risk_score = 5000
    /\ ~env[1].raises /\ Results[1].risk_level = "high"
    /\ ~env[3].raises /\ Results[3].risk_level = "low"

C5_NoSharedMutableObject ==
    /\ \A i \in DOMAIN pc : pc[i] = "feeding" => Range(outtextlist) \subseteq {i}
    /\ \A i \in DOMAIN clean_text : Range(clean_text[i]) \subseteq {i}

\* C6: a bulk call answers only once every item has its final result: the
\* results are those N results, the summary is computed over them, and any
\* other answer is an error without a result list.
C6_SummaryAfterAllComplete ==
    /\ response.status \in {0, 200, 422, 500}
    /\ phase = "gathering" => response.status = 0
    /\ response.status # 200 => DOMAIN response = {"status"}
    /\ response.status = 200 =>
          /\ Len(Results) = N
          /\ \A i \in 1..N :
                /\ pc[i] = "done"
                /\ ret[i].state = "result"
                /\ Results[i] = ret[i].value
          /\ response.summary = get_risk_summary(Results)
          /\ response.summary.total_emails = N
          /\ response.summary.phishing_detected =
                 Cardinality({i \in 1..N : ret[i].value.is_phishing})

C6_Witness ==
    /\ response.status = 200 /\ N = MaxBatch
    /\ response.summary.total_emails = MaxBatch
    /\ response.summary.phishing_detected = 2
    /\ \E i \in 1..N : env[i].raises

\* C7 as stated: every bulk request is eventually answered, even when the
\* provider never answers a call.
C7_EventuallyAnswered == <>(phase \in {"responded", "failed", "rejected"})

\* C8: a batch of fewer than 1 or more than 50 emails is rejected as a
\* validation error before any item pipeline is started: no task, no result,
\* no summary.
C8_BatchSizeRejected ==
    (Len(emails) < 1 \/ Len(emails) > 50) =>
        /\ phase \in {"idle", "rejected"}
        /\ pc = <<>> /\ ret = <<>>
        /\ response.status \in {0, 422}
        /\ phase = "rejected" => response = [status |-> 422]

C8_Witness ==
    /\ Len(emails) = 51 /\ phase = "rejected" /\ response.status = 422
    /\ service = "ready"

\* C9: in every assessment (fused, deterministic-only fallback, degraded)
\* is_phishing is true exactly when the level is HIGH or CRITICAL.
C9_FlaggedIffHighOrCritical ==
    assessment.kind # "none" =>
        /\ assessment.r.risk_level \in RiskLevel
        /\ assessment.r.is_phishing <=> assessment.r.risk_level \in {"high", "critical"}

C9_Witness ==
    /\ assessment.kind = "fused"
    /\ assessment.r.risk_level = "medium" /\ assessment.r.risk_score = 6990
    /\ ~assessment.r.is_phishing

\* C10 as stated: in every fused assessment the level is the classification
\* of the reported (clamped and rounded) score.
C10_LevelOfReportedScore ==
    assessment.kind = "fused" =>
        assessment.r.risk_level =
            (IF assessment.r.risk_score >= 9000 THEN "critical"
             ELSE IF assessment.r.risk_score >= 7000 THEN "high"
             ELSE IF assessment.r.risk_score >= 4000 THEN "medium"
             ELSE "low")

\* C11: the fused score is d*0.6 + g*0.4 when the confidence is at least 0.5
\* and d*0.8 + g*0.2 (0.8 = min(0.8, 0.6 + 0.2)) when it is below, clamped to
\* [0,100] and rounded to one decimal; d=80, g=20, c=0.9 gives 56.0, MEDIUM,
\* not flagged, and d=80, g=95, c=0.3 gives 83.0, HIGH, flagged.
C11_FusedScore ==
    assessment.kind = "fused" =>
        LET d == fin.det
            g == fin.lik
            blend == IF fin.conf >= 50
                     THEN (d * 6 + g * 4) \div 10
                     ELSE (d * 8 + g * 2) \div 10
            r == assessment.r
        IN  /\ r.risk_score = Round1(Max(0, Min(10000, blend)))
            /\ (d = 8000 /\ g = 2000 /\ fin.conf = 90) =>
                   r.risk_score = 5600 /\ r.risk_level = "medium" /\ ~r.is_phishing
            /\ (d = 8000 /\ g = 9500 /\ fin.conf = 30) =>
                   r.risk_score = 8300 /\ r.risk_level = "high" /\ r.is_phishing

C11_Witness ==
    /\ assessment.kind = "fused"
    /\ fin = [det |-> 8000, lik |-> 9500, conf |-> 30]
    /\ assessment.r.risk_score = 8300 /\ assessment.r.is_phishing

\* the semantic score of the run's inputs before the context is applied
OriginalAnalysis == analyze_email(TRUE, fin.found.indicators, fin.reply)

\* the deltas of the context rules that match at hour h
ContextDeltas(h) ==
    (IF fin.context.bank_in_body THEN 500 ELSE 0)
    + (IF h < 6 \/ h > 22 THEN 300 ELSE 0)
    + (IF fin.context.business_personal THEN 500 ELSE 0)

\* C12 as stated: with a context, the final score is the weighted blend of the
\* deterministic and the semantic score plus the delta of every matching
\* heuristic (+5, +3, +5), clamped and rounded.
C12_DeltasAddedToBlend ==
    \A k \in DOMAIN assessment :
        (assessment[k].status = 200 /\ fin.has_context /\ ~fin.raises) =>
            LET r == assessment[k].r
                d == r.deterministic_checks.score
                g == OriginalAnalysis.phishing_likelihood
                blend == IF OriginalAnalysis.model_confidence >= 50
                         THEN (d * 6 + g * 4) \div 10
                         ELSE (d * 8 + g * 2) \div 10
            IN  r.risk_score =
                    Round1(Max(0, Min(10000, blend + ContextDeltas(assessment[k].hour))))

\* C13 as stated: on the single-item and on the bulk path, whenever the
\* context changes the semantic score, the original and the adjusted score
\* are both in the reasoning text of the returned assessment.
C13_AdjustmentAuditable ==
    \A k \in DOMAIN assessment :
        LET g == assessment[k].r.gemini_analysis
            original == OriginalAnalysis.phishing_likelihood
        IN  (assessment[k].status = 200 /\ ~fin.raises
             /\ g.phishing_likelihood # original) =>
                g.reasoning_note = <<original, g.phishing_likelihood>>

\* C14 as stated: two runs of the pipeline on the same deterministic score,
\* semantic score and context give the same score, level and flag, whatever
\* the wall-clock time of each run.
C14_SameInputsSameAssessment ==
    \A j, k \in DOMAIN assessment :
        ~fin.raises =>
        /\ assessment[j].r.risk_score = assessment[k].r.risk_score
        /\ assessment[j].r.risk_level = assessment[k].r.risk_level
        /\ assessment[j].r.is_phishing = assessment[k].r.is_phishing

\* C15: when a step of the fusion throws, the request still gets an
\* assessment: its score is the deterministic score, and its level and flag
\* are the classification of that score with the same thresholds.
C15_FusionFallsBackToDeterministic ==
    assessment.kind = "deterministic_only" =>
        LET r == assessment.r
        IN  /\ r.risk_score = fin.det
            /\ r.risk_level = (IF fin.det >= 9000 THEN "critical"
                               ELSE IF fin.det >= 7000 THEN "high"
                               ELSE IF fin.det >= 4000 THEN "medium"
                               ELSE "low")
            /\ r.is_phishing <=> fin.det >= 7000
            /\ r.deterministic_checks.score = fin.det

C15_Witness ==
    /\ assessment.kind = "deterministic_only"
    /\ fin.det = 7000 /\ fin.lik = 0 /\ fin.conf = 90
    /\ assessment.r.risk_score = 7000 /\ assessment.r.risk_level = "high"

\* the provider failed: it is unavailable, its call raised, or its reply is
\* malformed
ProviderFailure ==
    \/ ~fin.initialized
    \/ fin.reply.kind \in {"exception", "text", "invalid"}

\* C16 as stated: on every provider failure the semantic score has confidence
\* at most 0.4, and likelihood min(80, 50 + 10 per prior indicator of
\* confidence above 0.7) when there is such an indicator; when there is none
\* it is likelihood 50.0 with confidence 0.1.
C16_FallbackSemanticScore ==
    (assessment.kind = "semantic" /\ ProviderFailure) =>
        LET n == Cardinality({k \in DOMAIN fin.indicators :
                                  fin.indicators[k].confidence > 70})
            g == assessment.g
        IN  /\ g.model_confidence <= 40
            /\ IF n > 0
               THEN g.phishing_likelihood = Min(8000, 5000 + 1000 * n)
               ELSE g.phishing_likelihood = 5000 /\ g.model_confidence = 10

\* C17: whatever the provider does (answer, raise, answer text that is not
\* JSON, answer JSON with missing or out-of-range fields, not be initialised)
\* the semantic stage returns a semantic score, and the score handed to the
\* fusion has likelihood in [0,100] and confidence in [0,1].
C17_SemanticScoreWellFormed ==
    assessment.kind \in {"semantic", "adjusted"} =>
        /\ DOMAIN assessment.g =
               {"phishing_likelihood", "reasoning", "reasoning_note", "model_confidence"}
        /\ assessment.g.phishing_likelihood >= 0
        /\ assessment.g.phishing_likelihood <= 10000
        /\ assessment.g.model_confidence >= 0
        /\ assessment.g.model_confidence <= 100

C17_Witness ==
    /\ assessment.kind = "semantic" /\ fin.initialized
    /\ fin.reply = Reply("json", 15000, 150)
    /\ assessment.g.phishing_likelihood = 10000
    /\ assessment.g.model_confidence = 100

C19_DeterministicScoreInRange ==
    assessment.kind \in {"checked", "minimal"} =>
        LET c == assessment.checks
        IN  /\ c.score >= 0 /\ c.score <= 10000
            /\ (c.spf_pass = "none" /\ c.dkim_pass = "none" /\ c.dmarc_pass = "none"
                /\ c.sender_reputation = NoReputation
                /\ (assessment.kind = "minimal" \/ fin.indicators = <<>>)) =>
                   c.score = 5000

C19_Witness ==
    /\ assessment.kind = "checked"
    /\ fin.spf = "pass" /\ fin.dkim = "pass" /\ fin.dmarc = "pass"
    /\ fin.reputation = 100
    /\ fin.indicators = Repeated(SuspiciousIndicator("url", 90), 4)
    /\ assessment.checks.score = 10000

\* the header reports neither a pass nor a fail for the mechanism
ReportsUnknown(result) == result \notin {"pass", "fail", "softfail", "hardfail"}

\* C20 as stated: a mechanism whose header is absent or reports neither pass
\* nor fail (neutral, none) has outcome unknown, and the deterministic score
\* is the score computed with that mechanism left out.
C20_UnknownLeftOut ==
    assessment.kind = "checked" =>
        LET c == assessment.checks
        IN  /\ ReportsUnknown(fin.spf) => c.spf_pass = "none"
            /\ ReportsUnknown(fin.dkim) => c.dkim_pass = "none"
            /\ ReportsUnknown(fin.dmarc) => c.dmarc_pass = "none"
            /\ c.score = calculate_deterministic_score(
                             IF ReportsUnknown(fin.spf) THEN "none" ELSE c.spf_pass,
                             IF ReportsUnknown(fin.dkim) THEN "none" ELSE c.dkim_pass,
                             IF ReportsUnknown(fin.dmarc) THEN "none" ELSE c.dmarc_pass,
                             fin.reputation, fin.indicators)

\* C22: the summary of a bulk answer agrees with its results: total_emails
\* is the number of results and the sum of the four per-level counts, and the
\* flagged count is the number of HIGH plus CRITICAL results, which is the
\* length of the high-risk email list.
C22_SummaryAgreesWithResults ==
    response.status = 200 =>
        LET summary == response.summary
            dist == summary.risk_level_distribution
            severe == {i \in DOMAIN Results :
                           Results[i].risk_level \in {"high", "critical"}}
        IN  /\ summary.total_emails = Len(Results)
            /\ summary.total_emails =
                   dist["critical"] + dist["high"] + dist["medium"] + dist["low"]
            /\ \A level \in RiskLevel :
                   dist[level] = Cardinality({i \in DOMAIN Results :
                                                  Results[i].risk_level = level})
            /\ summary.phishing_detected = Cardinality(severe)
            /\ summary.phishing_detected = Len(summary.high_risk_emails)
            /\ \A k \in DOMAIN summary.high_risk_emails :
                   \E i \in severe :
                       summary.high_risk_emails[k].risk_score = Results[i].risk_score

C22_Witness ==
    /\ response.status = 200 /\ N = MaxBatch
    /\ \A level \in RiskLevel : response.summary.risk_level_distribution[level] >= 1
    /\ response.summary.phishing_detected = 3
    /\ Len(response.summary.high_risk_emails) = 3

\* C27: the admission gate never loses a permit: every permit is either free
\* or held by a running pipeline, a pipeline gives its permit back when it
\* returns and when it raises, so when every pipeline terminates each item of
\* the batch eventually acquires the gate and gets a result, and no permit is
\* held once the batch has finished.
C27_GateLosesNoPermit ==
    /\ [](phase = "gathering" =>
              permits + Cardinality(InFlight) = SemaphoreLimit)
    /\ [](phase = "responded" =>
              /\ permits = SemaphoreLimit /\ waiters = <<>>
              /\ \A i \in 1..N : pc[i] = "done" /\ ret[i] # Pending)
    /\ [][\A i \in DOMAIN pc :
               (i \in DOMAIN pc' /\ pc'[i] = "done" /\ pc[i] # "done")
                   => (pc[i] = "running" /\ permits' = permits + 1)]_vars
    /\ (phase = "gathering") ~> (phase = "responded")

C27_Witness ==
    /\ phase = "responded" /\ N = MaxBatch
    /\ permits = SemaphoreLimit /\ waiters = <<>>
    /\ env[MaxBatch] = EnvRaises /\ env[1] = EnvLow
    /\ \A i \in 1..N : ret[i] # Pending

C29_LowConfidenceNeverLessDeterministic ==
    (assessment.kind = "weighted" /\ fin.conf < 50) =>
        assessment.weights[1] >= fin.wd

\* the deterministic checks of an email with the header results of f
ChecksOf(f) ==
    perform_checks(Found(check_spf(f.spf), check_dkim(f.dkim), check_dmarc(f.dmarc),
                         f.reputation, f.indicators))[1]

\* the risk levels from the lowest to the highest
LevelRank(level) ==
    IF level = "low" THEN 0
    ELSE IF level = "medium" THEN 1
    ELSE IF level = "high" THEN 2
    ELSE 3

StageOrder ==
    <<StageEvent("extractor", "call"), StageEvent("extractor", "return"),
      StageEvent("provider", "call"), StageEvent("provider", "return"),
      StageEvent("fusion", "call"), StageEvent("fusion", "return")>>

\* C26: within one item pipeline the stages run strictly in the order
\* extractor, provider call, fusion: the provider call starts only after the
\* extraction has returned, fusion starts only after the provider stage has
\* returned, and no two stages of the same item overlap.
C26_StagesInOrder ==
    \A i \in DOMAIN assessment :
        /\ Len(assessment[i]) <= Len(StageOrder)
        /\ \A k \in DOMAIN assessment[i] : assessment[i][k] = StageOrder[k]
        /\ (i \in DOMAIN pc /\ pc[i] = "provider") =>
               StageEvent("extractor", "return") \in Range(assessment[i])
        /\ (i \in DOMAIN pc /\ pc[i] = "fusion") =>
               StageEvent("provider", "return") \in Range(assessment[i])
        /\ (i \in DOMAIN ret /\ ret[i] # Pending /\ ~env[i].raises) =>
               assessment[i] = StageOrder

C26_Witness ==
    /\ phase = "responded" /\ N = MaxStageBatch
    /\ assessment[1] = StageOrder
    /\ env[1] = EnvProviderFails
    /\ env[N] = EnvRaises /\ Len(assessment[N]) = 3

\* the indicator type each sub-scanner produces
ScannerType(scanner) ==
    IF scanner = "urls" THEN "url"
    ELSE IF scanner = "attachments" THEN "attachment"
    ELSE IF scanner = "emails" THEN "email"
    ELSE IF scanner = "content" THEN "content"
    ELSE "header"

NeutralDefault(a) ==
    a.checks.score = 5000 /\ a.indicators = <<>>

\* the score of an email with no authentication result and these indicators
ScoreOf(email, indicators) ==
    calculate_deterministic_score("none", "none", "none",
                                  check_sender_reputation(email.sender), indicators)

\* C21 as stated: whenever any internal scanner fails the extractor returns
\* the neutral default, score 50.0 with an empty indicator sequence.
C21_Original ==
    (assessment.kind = "extracted" /\ fin.fails # "none") => NeutralDefault(assessment)

\* C21: the extractor never raises to its caller: a failure that reaches
\* perform_checks itself gives the neutral default (score 50.0, no
\* indicator), and a failure inside one sub-scanner gives that scanner's
\* empty result while the other scanners' indicators are kept and scored.
C21_ExtractorDegrades ==
    assessment.kind = "extracted" =>
        LET complete == collect_indicators(fin.email, "none")
            kept == SelectSeq(complete, LAMBDA i : i.type # ScannerType(fin.fails))
        IN  /\ assessment.checks.score \in 0..10000
            /\ fin.fails = "checks" => NeutralDefault(assessment)
            /\ fin.fails = "none" => assessment.indicators = complete
            /\ fin.fails \notin {"checks", "none"} =>
                   /\ assessment.indicators = kept
                   /\ assessment.checks.score = ScoreOf(fin.email, kept)

C21_Witness ==
    /\ assessment.kind = "extracted" /\ fin.fails = "urls"
    /\ fin.email.links = <<IpLoginLink, KeywordLink>>
    /\ fin.email.attachments = <<ExeFile>>
    /\ Len(assessment.indicators) = 2
    /\ assessment.indicators[1].value = "document.exe"
    /\ assessment.checks.score = 6280

\* which words the reason texts of analyze_url contain, compared in lower case
ReasonWords ==
    {<<"Invalid URL format", "url">>, <<"Legitimate domain", "domain">>,
     <<"Suspicious TLD", "tld">>, <<"Suspicious pattern detected", "pattern">>,
     <<"Potential homograph attack", "homograph">>, <<"Unusually long URL", "url">>,
     <<"Excessive subdomains", "subdomains">>, <<"Suspicious path keywords", "path">>,
     <<"Analysis error", "error">>, <<"Domain: Analysis error", "error">>}

Mentions(reason, word) == \E text \in Range(reason) : <<text, word>> \in ReasonWords

\* C23 as stated: every analysed link that is on a known URL-shortener
\* domain or has an IP-literal host is flagged as a URL indicator whose
\* reason names that cause (shortener or IP address).
C23_ShortenerAndIpFlagged ==
    (assessment.kind = "extracted" /\ fin.fails = "none") =>
        \A k \in DOMAIN fin.email.links :
            LET link == fin.email.links[k]
            IN  (/\ link.valid /\ ~link.raises /\ ~link.whitelisted
                 /\ link.patterns \cap {"shortener", "ip"} # {}) =>
                    \E j \in DOMAIN assessment.indicators :
                        LET i == assessment.indicators[j]
                        IN  /\ i.type = "url" /\ i.value = link.url
                            /\ \/ ("shortener" \in link.patterns
                                      /\ Mentions(i.reason, "shortener"))
                               \/ ("ip" \in link.patterns
                                      /\ Mentions(i.reason, "ip address"))

\* the confidence expected for the filenames that end in a listed extension
DangerousNames ==
    ("document.exe" :> 90) @@ ("script.js" :> 60) @@ ("REPORT.EXE" :> 90)
    @@ ("Loader.Js" :> 60) @@ ("invoice.pdf.exe" :> 90) @@ ("backup.zip" :> 40)

\* C24: each filename of the attachment list that ends, whatever its case, in
\* a listed dangerous extension yields exactly one dangerous-file-type
\* attachment indicator whose value is the filename and whose confidence is
\* the table value; a filename with no listed extension, no double extension
\* and at most 100 characters yields no indicator.
C24_DangerousAttachments ==
    (assessment.kind = "extracted" /\ fin.fails \notin {"attachments", "checks"}) =>
        \A k \in DOMAIN fin.email.attachments :
            LET file == fin.email.attachments[k]
                occurrences == {n \in DOMAIN fin.email.attachments :
                                    fin.email.attachments[n].name = file.name}
                about == {j \in DOMAIN assessment.indicators :
                              /\ assessment.indicators[j].type = "attachment"
                              /\ assessment.indicators[j].value = file.name}
                dangerous == {j \in about :
                                  \E e \in DOMAIN suspicious_extensions :
                                      assessment.indicators[j].reason =
                                          <<"Potentially dangerous file type: " \o e>>}
            IN  /\ file.name \in DOMAIN DangerousNames =>
                       /\ Cardinality(dangerous) = Cardinality(occurrences)
                       /\ \A j \in dangerous :
                              assessment.indicators[j].confidence = DangerousNames[file.name]
                /\ (/\ file.name \notin DOMAIN DangerousNames
                    /\ ~file.double_extension /\ file.length <= 100) =>
                       about = {}
                /\ file.name \notin DOMAIN DangerousNames => dangerous = {}

C24_Witness ==
    /\ assessment.kind = "extracted" /\ fin.fails = "none"
    /\ Len(fin.email.attachments) = 2
    /\ fin.email.attachments[1].name = "REPORT.EXE"
    /\ fin.email.attachments[2].name = "invoice.pdf"
    /\ fin.email.content = <<>>
    /\ Len(assessment.indicators) = 1
    /\ assessment.indicators[1].value = "REPORT.EXE"
    /\ assessment.indicators[1].confidence = 90

\* C25 as stated: a failure raised while a sub-scanner analyses one input
\* makes the sub-scanner contribute no indicator for it: an analysis error
\* never becomes a suspicious indicator and never raises the score.
C25_AnalysisErrorNoIndicator ==
    assessment.kind = "extracted" =>
        LET sound == SelectSeq(assessment.indicators,
                               LAMBDA i : ~Mentions(i.reason, "error"))
        IN  /\ \A k \in DOMAIN fin.email.links :
                   fin.email.links[k].raises =>
                       \A j \in DOMAIN assessment.indicators :
                           assessment.indicators[j].value # fin.email.links[k].url
            /\ fin.email.sender.raises =>
                   \A j \in DOMAIN assessment.indicators :
                       assessment.indicators[j].type # "email"
            /\ assessment.indicators = sound
            /\ fin.fails # "checks" =>
                   assessment.checks.score <= ScoreOf(fin.email, sound)

====
